---------------------------- MODULE Spec2Model ----------------------------
(***************************************************************************)
(* SECInsightHub: document chunk storage, text-selection offsets, the      *)
(* paginated viewer's highlight renderer and jump-to-annotation logic, and *)
(* the annotation modal.                                                   *)
(*                                                                         *)
(* Strings are sequences of one-character strings.  DEFAULT_CHUNK_SIZE is  *)
(* 1 * 1024 * 1024 in the source; the model scales it down, every formula  *)
(* is stated in terms of the name and never of the value.                  *)
(***************************************************************************)
EXTENDS Integers, Sequences, FiniteSets, TLC

(***************************************************************************)
(* Bounds                                                                  *)
(***************************************************************************)
MaxContentLen == 11        \* longest document content handed to storage
NumCallers == 2            \* request handlers that may call the storage layer

DEFAULT_CHUNK_SIZE == 5

DocIds == {1, 2}
Callers == 1..NumCallers

(***************************************************************************)
(* Generic helpers (JavaScript primitives used by the code)                *)
(***************************************************************************)
Min(a, b) == IF a < b THEN a ELSE b
Max(a, b) == IF a > b THEN a ELSE b

\* Math.ceil(a / b) for a >= 0, b > 0
Ceil(a, b) == (a + b - 1) \div b

\* Math.floor(a / b) for a >= 0, b > 0
Floor(a, b) == a \div b

\* String.prototype.substring(a, b): both indices clamped to [0, length],
\* swapped when a > b; result is the characters at 0-based positions [a, b).
Substring(s, a, b) ==
    LET ca == Max(0, Min(a, Len(s)))
        cb == Max(0, Min(b, Len(s)))
        lo == Min(ca, cb)
        hi == Max(ca, cb)
    IN  SubSeq(s, lo + 1, hi)

\* Two document texts of length n, told apart by k, with no short period:
\* the storage code never inspects characters, only positions.
ContentOf(k, n) ==
    [i \in 1..n |-> IF ((i * i + k * i) % 5) < 2 THEN (IF k = 1 THEN "a" ELSE "c")
                    ELSE (IF k = 1 THEN "b" ELSE "d")]

Contents == {ContentOf(k, n) : k \in {1, 2}, n \in 0..MaxContentLen}

VARIABLES
    documentChunks,   \* table document_chunks: sequence of rows in insertion order
    totalPages,       \* documents.totalPages, per document id
    calls             \* per caller: the updateDocumentContent call in progress

storageVars == <<documentChunks, totalPages, calls>>

VARIABLES
    shownDoc,            \* which document text the page viewer shows
    currentPage,         \* DocumentViewer state currentPage
    currentPageContent,  \* DocumentViewer state currentPageContent (Null: null)
    annotations,         \* the annotations query result, newest first
    rendered,            \* text nodes under contentRef after highlightText
    reported,            \* arguments of the last setupTextSelection callback
    contextMenu,         \* DocumentViewer state contextMenu (None: null)
    jump,                \* what the last jumpToAnnotation handler computed
    madeAt               \* history: per annotation id, the page and the local
                         \* offsets of the selection it was made from

pageVars == <<shownDoc, currentPage, currentPageContent, annotations, rendered,
              reported, contextMenu, jump, madeAt>>

VARIABLES
    annotationModalOpen, \* Home state annotationModalOpen
    editingAnnotation,   \* Home state editingAnnotation (None: null)
    selection,           \* Home state selectedText and selectionRange
    annotationType,      \* AnnotationModal state annotationType
    note,                \* AnnotationModal state note
    color,               \* AnnotationModal state color
    touched,             \* history: form controls used since the modal opened
    onSaveCalls          \* history: onSave calls since the modal opened

modalVars == <<annotationModalOpen, editingAnnotation, selection, annotationType,
               note, color, touched, onSaveCalls>>

VARIABLES
    metadataCache,       \* documents whose metadata query has its data
    isPageLoading,       \* DocumentViewer state isPageLoading
    pendingScrollOffset, \* DocumentViewer state pendingScrollOffset ({}: null)
    fetches,             \* getSECDocumentPage calls in flight, with their closures
    timers,              \* 50 ms timers not yet fired, with their closures
    scrolls,             \* history: the scrollToOffset calls made
    jumps,               \* history: the jumpToAnnotation events handled
    selects              \* Home: handleAnnotationSelect calls and their 100 ms timeouts

asyncVars == <<metadataCache, isPageLoading, pendingScrollOffset, fetches, timers,
               scrolls, jumps, selects>>

VARIABLES
    selectedAnnotationForAmend, \* AnnotationPanel state (None: null)
    deleteInFlight,      \* ids given to the delete mutation and not yet answered
    clicks,              \* history: the clicks made in the annotation panel
    mutateCalls,         \* history: the ids deleteAnnotationMutation.mutate got
    toasts,              \* history: the toasts shown by the panel
    invalidated          \* history: the query keys the panel invalidated

panelVars == <<selectedAnnotationForAmend, deleteInFlight, clicks, mutateCalls,
               toasts, invalidated>>

VARIABLES
    companies,           \* rows of table companies
    documents,           \* rows of table documents
    imports,             \* POST /api/documents requests being handled
    lastResponse         \* history: the last response a route has sent

serverVars == <<companies, documents, imports, lastResponse>>

vars == <<documentChunks, totalPages, calls, shownDoc, currentPage,
          currentPageContent, annotations, rendered, reported, contextMenu, jump,
          madeAt, annotationModalOpen, editingAnnotation, selection, annotationType,
          note, color, touched, onSaveCalls, metadataCache, isPageLoading,
          pendingScrollOffset, fetches, timers, scrolls, jumps, selects,
          selectedAnnotationForAmend, deleteInFlight, clicks, mutateCalls, toasts,
          invalidated, companies, documents, imports, lastResponse>>

None == [none |-> TRUE]

\* the null in place of a string
Null == <<"null">>

\* the annotation panel as mounted
PanelQuiet ==
    /\ selectedAnnotationForAmend = None /\ deleteInFlight = {}
    /\ clicks = <<>> /\ mutateCalls = <<>> /\ toasts = <<>> /\ invalidated = <<>>

\* an import request slot with no request
NoImport == [pc |-> "idle"]

\* the server with one company and the two filings of DocIds imported, no
\* request being handled
ServerQuiet ==
    /\ companies = {[id |-> 1, cik |-> <<"c", "1">>]}
    /\ documents = {[id |-> d, companyId |-> 1, accessionNumber |-> d] : d \in DocIds}
    /\ imports = [r \in Callers |-> NoImport]
    /\ lastResponse = None

(***************************************************************************)
(* Storage layer: DatabaseStorage.updateDocumentContent                    *)
(***************************************************************************)
Idle == [pc |-> "idle", id |-> 0, content |-> <<>>]

\* NewChunks with the slice one character short
NewChunks_ShortSlice(id, content) ==
    LET numChunks == Ceil(Len(content), DEFAULT_CHUNK_SIZE)
    IN  [j \in 1..numChunks |->
            [documentId |-> id,
             pageNumber |-> j,
             content |-> Substring(content, (j - 1) * DEFAULT_CHUNK_SIZE,
                                            j * DEFAULT_CHUNK_SIZE - 1)]]

\* the loop building newChunks: one row per i in 0..numChunks-1
NewChunks(id, content) ==
    LET numChunks == Ceil(Len(content), DEFAULT_CHUNK_SIZE)
    IN  [j \in 1..numChunks |->
            [documentId |-> id,
             pageNumber |-> j,
             content |-> Substring(content, (j - 1) * DEFAULT_CHUNK_SIZE,
                                            j * DEFAULT_CHUNK_SIZE)]]

\* totalPages: numChunks > 0 ? numChunks : 1
TotalPagesFor(content) ==
    LET numChunks == Ceil(Len(content), DEFAULT_CHUNK_SIZE)
    IN  IF numChunks > 0 THEN numChunks ELSE 1

\* DeleteChunks that only removes the first page
DeleteChunks_FirstPageOnly(rows, id) ==
    LET Keep(r) == r.documentId # id \/ r.pageNumber # 1 IN SelectSeq(rows, Keep)

\* db.delete(documentChunks).where(eq(documentChunks.documentId, id))
DeleteChunks(rows, id) ==
    LET Keep(r) == r.documentId # id IN SelectSeq(rows, Keep)

\* A request handler calls updateDocumentContent(id, content); the first
\* awaited statement deletes the document's chunks.
UDC_Delete(c, id, content) ==
    /\ calls[c].pc = "idle"
    /\ documentChunks' = DeleteChunks(documentChunks, id)
    /\ calls' = [calls EXCEPT ![c] = [pc |-> "insert", id |-> id, content |-> content]]
    /\ UNCHANGED totalPages
    /\ UNCHANGED <<pageVars, modalVars, asyncVars, panelVars, serverVars>>

\* if (newChunks.length > 0) await db.insert(documentChunks).values(newChunks)
UDC_Insert(c) ==
    /\ calls[c].pc = "insert"
    /\ documentChunks' = documentChunks \o NewChunks(calls[c].id, calls[c].content)
    /\ calls' = [calls EXCEPT ![c].pc = "update"]
    /\ UNCHANGED totalPages
    /\ UNCHANGED <<pageVars, modalVars, asyncVars, panelVars, serverVars>>

\* await db.update(documents).set({ totalPages: ... }).where(eq(documents.id, id))
UDC_UpdateDocument(c) ==
    /\ calls[c].pc = "update"
    /\ totalPages' = [totalPages EXCEPT ![calls[c].id] = TotalPagesFor(calls[c].content)]
    /\ calls' = [calls EXCEPT ![c].pc = "done"]
    /\ UNCHANGED documentChunks
    /\ UNCHANGED <<pageVars, modalVars, asyncVars, panelVars, serverVars>>

\* the promise resolves and the caller's handler goes on
UDC_Return(c) ==
    /\ calls[c].pc = "done"
    /\ calls' = [calls EXCEPT ![c] = Idle]
    /\ UNCHANGED <<documentChunks, totalPages>>
    /\ UNCHANGED <<pageVars, modalVars, asyncVars, panelVars, serverVars>>

\* getDocumentChunk(documentId, pageNumber): first matching row, or none
ChunkRows(rows, id, p) ==
    LET Match(r) == r.documentId = id /\ r.pageNumber = p IN SelectSeq(rows, Match)

RowsOf(rows, id) ==
    LET Match(r) == r.documentId = id IN SelectSeq(rows, Match)

InitStorage ==
    /\ documentChunks = <<>>
    /\ totalPages = [d \in DocIds |-> 0]
    /\ calls = [c \in Callers |-> Idle]
    /\ shownDoc = 0 /\ currentPage = 1 /\ currentPageContent = Null
    /\ annotations = <<>> /\ rendered = <<>> /\ reported = None
    /\ contextMenu = None /\ jump = None /\ madeAt = <<>>
    /\ annotationModalOpen = FALSE /\ editingAnnotation = None
    /\ selection = [selectedText |-> <<>>, selectionRange |-> None]
    /\ annotationType = "highlight" /\ note = <<>> /\ color = "orange"
    /\ touched = {} /\ onSaveCalls = <<>>
    /\ metadataCache = {} /\ isPageLoading = FALSE /\ pendingScrollOffset = {}
    /\ fetches = {} /\ timers = {} /\ scrolls = {} /\ jumps = <<>>
    /\ selects = <<>>
    /\ PanelQuiet /\ ServerQuiet

\* One storage call at a time: each request runs to completion before the next.
NoOtherCall(c) == \A o \in Callers \ {c} : calls[o].pc = "idle"

NextStorage ==
    \/ \E c \in Callers, id \in DocIds, content \in Contents :
          NoOtherCall(c) /\ UDC_Delete(c, id, content)
    \/ \E c \in Callers : UDC_Insert(c)
    \/ \E c \in Callers : UDC_UpdateDocument(c)
    \/ \E c \in Callers : UDC_Return(c)

SpecStorage == InitStorage /\ [][NextStorage]_vars

(***************************************************************************)
(* Claims about the storage layer                                          *)
(***************************************************************************)
RECURSIVE Flatten(_)
Flatten(ss) == IF ss = <<>> THEN <<>> ELSE Head(ss) \o Flatten(Tail(ss))

RowContents(rows) == [i \in 1..Len(rows) |-> rows[i].content]

MaxPageOf(rows) ==
    LET ps == {rows[i].pageNumber : i \in 1..Len(rows)}
    IN  IF ps = {} THEN 0 ELSE CHOOSE m \in ps : \A q \in ps : q <= m

\* the stored chunks of document id read in ascending pageNumber order
StoredText(id) ==
    LET rows == RowsOf(documentChunks, id)
    IN  Flatten([p \in 1..MaxPageOf(rows) |->
                    Flatten(RowContents(ChunkRows(rows, id, p)))])

\* C1: when updateDocumentContent(id, content) has completed, the stored
\* chunks of id concatenated in ascending pageNumber order are exactly content.
C1_ConcatIsContent ==
    \A c \in Callers :
        calls[c].pc = "done" => StoredText(calls[c].id) = calls[c].content

C1_Witness ==
    \E c \in Callers :
        /\ calls[c].pc = "done"
        /\ Len(calls[c].content) > 2 * DEFAULT_CHUNK_SIZE
        /\ Len(RowsOf(documentChunks, calls[c].id)) = 3

\* C2: when updateDocumentContent(id, content) with non-empty content has
\* completed, the rows of id carry page numbers exactly 1..ceil(len/size), once
\* each; every page but the last holds DEFAULT_CHUNK_SIZE characters, the last
\* between 1 and DEFAULT_CHUNK_SIZE; and every row holds the characters of the
\* new content at its page's positions (nothing of the previous content stays).
C2_PagesContiguous ==
    \A c \in Callers :
        (calls[c].pc = "done" /\ calls[c].content # <<>>) =>
            LET rows == RowsOf(documentChunks, calls[c].id)
                n == Len(calls[c].content)
                last == (n + DEFAULT_CHUNK_SIZE - 1) \div DEFAULT_CHUNK_SIZE
            IN  /\ Len(rows) = last
                /\ {rows[i].pageNumber : i \in 1..Len(rows)} = 1..last
                /\ \A i \in 1..Len(rows) :
                      LET p == rows[i].pageNumber
                          l == Len(rows[i].content)
                      IN  /\ p < last => l = DEFAULT_CHUNK_SIZE
                          /\ p = last => (1 <= l /\ l <= DEFAULT_CHUNK_SIZE)
                          /\ \A k \in 1..l :
                                rows[i].content[k] =
                                    calls[c].content[(p - 1) * DEFAULT_CHUNK_SIZE + k]

\* a shorter content of another text replaces a longer one, next to the other
\* document's chunks
C2_Witness ==
    \E c \in Callers :
        /\ calls[c].pc = "done"
        /\ Len(calls[c].content) = DEFAULT_CHUNK_SIZE + 1
        /\ \E d \in DocIds \ {calls[c].id} : Len(RowsOf(documentChunks, d)) = 3

(***************************************************************************)
(* The page shown by DocumentViewer: HTML parsing, highlightText,          *)
(* setupTextSelection, the context menu and the jumpToAnnotation handler.  *)
(*                                                                         *)
(* A text node is [text, path]: text is a sequence of [c, o] with c the    *)
(* character and o its 0-based index in the page's parsed text (-1 for a   *)
(* character that highlightText inserted); path is the chain of ancestor   *)
(* elements below the root div.  Empty text nodes are left out: the        *)
(* TreeWalker loop never picks a node of length 0 as start or end node.    *)
(***************************************************************************)
MaxAnnotations == 2        \* annotations created in one behaviour

\* The documents the viewer can show, as raw file texts; "<p>" opens a paragraph.
DocTexts ==
    << <<"a", "b", "c", "d", "e", "f", " ", "g">>,
       <<"a", "<", "p", ">", "b", " ", "c", " ">> >>

\* the marker text node appended after a highlight that has a note
AnnotationMarker == <<" ", "m", "m", "m", "m">>

PElem(n) == [kind |-> "p", id |-> n, start |-> -1]
SpanElem(ann) == [kind |-> "span", id |-> ann.id, start |-> ann.startOffset]

\* tempDiv.innerHTML = content: the text nodes of the parsed page.  Text before
\* the first <p> hangs under the root; each <p> starts a new paragraph element
\* that runs to the next <p> or to the end.
RECURSIVE ParseFrom(_, _, _, _, _, _)
ParseFrom(content, i, path, cur, nText, nP) ==
    LET flush == IF cur = <<>> THEN <<>> ELSE <<[text |-> cur, path |-> path]>>
    IN  IF i > Len(content) THEN flush
        ELSE IF /\ i + 2 <= Len(content)
                /\ content[i] = "<" /\ content[i + 1] = "p" /\ content[i + 2] = ">"
             THEN flush \o ParseFrom(content, i + 3, <<PElem(nP + 1)>>, <<>>, nText, nP + 1)
             ELSE ParseFrom(content, i + 1, path,
                            Append(cur, [c |-> content[i], o |-> nText]), nText + 1, nP)

ParseHTML(content) == ParseFrom(content, 1, <<>>, <<>>, 0, 0)

\* Node.textContent of a container: the characters of its text nodes in order
TextContent(dom) == Flatten([i \in 1..Len(dom) |-> dom[i].text])

Chars(text) == [i \in 1..Len(text) |-> text[i].c]

\* annotations.map(...).filter(annotationOverlapsPage)
OverlapsPage(ann, page, content) ==
    LET currentPageGlobalStartOffset == (page - 1) * DEFAULT_CHUNK_SIZE
        pageGlobalEndOffset == currentPageGlobalStartOffset + Len(content)
    IN  ann.startOffset < pageGlobalEndOffset /\ ann.endOffset > currentPageGlobalStartOffset

\* .sort((a, b) => b.startOffset - a.startOffset): stable, descending start
RECURSIVE InsertDesc(_, _)
InsertDesc(sorted, a) ==
    IF sorted = <<>> THEN <<a>>
    ELSE IF Head(sorted).startOffset >= a.startOffset
         THEN <<Head(sorted)>> \o InsertDesc(Tail(sorted), a)
         ELSE <<a>> \o sorted

RECURSIVE SortDesc(_)
SortDesc(anns) ==
    IF anns = <<>> THEN <<>>
    ELSE InsertDesc(SortDesc(SubSeq(anns, 1, Len(anns) - 1)), anns[Len(anns)])

AnnotationsToDisplay(anns, page, content) ==
    LET Keep(a) == OverlapsPage(a, page, content) IN SortDesc(SelectSeq(anns, Keep))

\* The TreeWalker loop: the first node with currentWalkerOffset + nodeLength >
\* clampedLocalStart is the start node, the first with ... >= clampedLocalEnd the
\* end node (then break).  Index 0 stands for null.
RECURSIVE Walk(_, _, _, _, _, _, _)
Walk(dom, i, off, cs, ce, sn, so) ==
    IF i > Len(dom) THEN [startNode |-> sn, startOff |-> so, endNode |-> 0, endOff |-> 0]
    ELSE LET nodeLength == Len(dom[i].text)
             hit == sn = 0 /\ off + nodeLength > cs
             sn2 == IF hit THEN i ELSE sn
             so2 == IF hit THEN cs - off ELSE so
         IN  IF off + nodeLength >= ce
             THEN [startNode |-> sn2, startOff |-> so2, endNode |-> i, endOff |-> ce - off]
             ELSE Walk(dom, i + 1, off + nodeLength, cs, ce, sn2, so2)

\* a string that is neither null nor empty
Truthy(str) == str # Null /\ str # <<>>

MarkerText == [i \in 1..Len(AnnotationMarker) |-> [c |-> AnnotationMarker[i], o |-> -1]]

NonEmpty(node) == IF node.text = <<>> THEN <<>> ELSE <<node>>

\* range.setStart(startNode, so); range.setEnd(endNode, eo);
\* range.surroundContents(span), then the marker text node after the span when
\* the annotation has a note.  surroundContents throws InvalidStateError when
\* the range partially contains a non-Text node, that is when the two text nodes
\* have different parents; the catch block leaves the DOM as it was.
SurroundContents(dom, sn, so, en, eo, ann) ==
    IF dom[sn].path # dom[en].path THEN dom
    ELSE
      LET parent == dom[sn].path
          depth == Len(parent)
          span == SpanElem(ann)
          Under(node) == [text |-> node.text,
                          path |-> parent \o <<span>> \o
                                   SubSeq(node.path, depth + 1, Len(node.path))]
          before == [text |-> SubSeq(dom[sn].text, 1, so), path |-> parent]
          after == [text |-> SubSeq(dom[en].text, eo + 1, Len(dom[en].text)), path |-> parent]
          inside ==
            IF sn = en
            THEN NonEmpty([text |-> SubSeq(dom[sn].text, so + 1, eo),
                           path |-> parent \o <<span>>])
            ELSE NonEmpty([text |-> SubSeq(dom[sn].text, so + 1, Len(dom[sn].text)),
                           path |-> parent \o <<span>>])
                 \o [k \in 1..(en - sn - 1) |-> Under(dom[sn + k])]
                 \o NonEmpty([text |-> SubSeq(dom[en].text, 1, eo),
                              path |-> parent \o <<span>>])
          marker == IF Truthy(ann.note) THEN <<[text |-> MarkerText, path |-> parent]>>
                    ELSE <<>>
      IN  SubSeq(dom, 1, sn - 1) \o NonEmpty(before) \o inside \o marker
          \o NonEmpty(after) \o SubSeq(dom, en + 1, Len(dom))

\* the body of the for loop of highlightText for one annotation
HighlightOne(dom, ann, page, content) ==
    LET currentPageGlobalStartOffset == (page - 1) * DEFAULT_CHUNK_SIZE
        localStart == ann.startOffset - currentPageGlobalStartOffset
        localEnd == ann.endOffset - currentPageGlobalStartOffset
        clampedLocalStart == Max(0, localStart)
        clampedLocalEnd == Min(Len(content), localEnd)
        w == Walk(dom, 1, 0, clampedLocalStart, clampedLocalEnd, 0, 0)
    IN  IF clampedLocalStart >= clampedLocalEnd THEN dom
        ELSE IF ann.type # "highlight" THEN dom
        ELSE IF w.startNode = 0 \/ w.endNode = 0 THEN dom
        ELSE SurroundContents(dom, w.startNode,
                              Min(w.startOff, Len(dom[w.startNode].text)),
                              w.endNode,
                              Min(w.endOff, Len(dom[w.endNode].text)), ann)

RECURSIVE HighlightAll(_, _, _, _)
HighlightAll(dom, todo, page, content) ==
    IF todo = <<>> THEN dom
    ELSE HighlightAll(HighlightOne(dom, Head(todo), page, content), Tail(todo), page, content)

\* highlightText(content): the DOM behind the returned innerHTML
HighlightText(content, page, anns) ==
    IF content = Null \/ content = <<>> THEN <<>>
    ELSE HighlightAll(ParseHTML(content), AnnotationsToDisplay(anns, page, content),
                      page, content)

IsSpace(ch) == ch = " "

\* String.prototype.trim(): drop the white space at both ends
RECURSIVE TrimStart(_)
TrimStart(str) == IF str # <<>> /\ IsSpace(Head(str)) THEN TrimStart(Tail(str)) ELSE str

RECURSIVE TrimEnd(_)
TrimEnd(str) ==
    IF str # <<>> /\ IsSpace(str[Len(str)]) THEN TrimEnd(SubSeq(str, 1, Len(str) - 1)) ELSE str

Trim(str) == TrimEnd(TrimStart(str))

\* GET /api/documents/:documentId/page/:pageNumber through getSECDocumentPage:
\* the chunk's content, or null on 404
PageContentOf(d, p) ==
    LET rows == ChunkRows(documentChunks, d, p)
    IN  IF rows = <<>> THEN Null ELSE rows[1].content

\* the (type, note) pairs the annotation modal is used with here
ModalChoices ==
    { <<"highlight", <<>>>>, <<"highlight", <<"n">>>>, <<"note", <<"n">>>> }

\* The user releases the mouse with the range [s, e) of the container's text
\* selected: handleMouseUp and the callback given by DocumentViewer.  The mouse
\* press that starts a selection closes an open context menu first
\* (handleClickOutside), so the handler is taken with the menu closed; it
\* overwrites the menu in any case.
HandleMouseUp(s, e) ==
    LET textContent == Chars(TextContent(rendered))
        selectedText == Trim(Substring(textContent, s, e))
        startOffset == s                          \* beforeRange.toString().length
        endOffset == startOffset + Len(selectedText)
        currentPageGlobalStartOffset == (currentPage - 1) * DEFAULT_CHUNK_SIZE
    IN  /\ currentPageContent # Null /\ currentPageContent # <<>>
        /\ contextMenu = None
        /\ Len(selectedText) # 0
        /\ reported' = [text |-> selectedText, startOffset |-> startOffset,
                        endOffset |-> endOffset]
        /\ contextMenu' = [selectedText |-> selectedText,
                           startOffset |-> currentPageGlobalStartOffset + startOffset,
                           endOffset |-> currentPageGlobalStartOffset + endOffset]
        /\ jump' = None
        /\ UNCHANGED <<shownDoc, currentPage, currentPageContent, annotations,
                       rendered, madeAt>>
        /\ UNCHANGED <<storageVars, modalVars, asyncVars, panelVars, serverVars>>

\* Cancel in the context menu, or a mouse press outside it
ContextMenuCancel ==
    /\ contextMenu # None
    /\ contextMenu' = None /\ reported' = None /\ jump' = None
    /\ UNCHANGED <<shownDoc, currentPage, currentPageContent, annotations, rendered,
                   madeAt>>
    /\ UNCHANGED <<storageVars, modalVars, asyncVars, panelVars, serverVars>>

\* the note of a new annotation: note.trim(), or null when it is empty and the
\* type is not note
NoteToSave(type, str) ==
    IF type = "note" \/ Trim(str) # <<>> THEN Trim(str) ELSE Null

\* Annotate in the context menu, then Save in the modal: onTextSelection hands
\* the menu's text and global offsets to the page, the modal adds type and note,
\* POST /api/annotations stores the row and the annotations query is refetched.
ContextMenuAnnotate(type, noteIn) ==
    LET id == Len(annotations) + 1
        ann == [id |-> id, type |-> type,
                selectedText |-> Trim(contextMenu.selectedText),
                note |-> NoteToSave(type, noteIn),
                color |-> "orange", documentId |-> shownDoc, pageNumber |-> 1,
                startOffset |-> contextMenu.startOffset,
                endOffset |-> contextMenu.endOffset]
    IN  /\ contextMenu # None
        /\ Len(annotations) < MaxAnnotations
        /\ annotations' = <<ann>> \o annotations
        /\ rendered' = HighlightText(currentPageContent, currentPage, annotations')
        /\ madeAt' = Append(madeAt, [page |-> currentPage,
                                     startOffset |-> reported.startOffset,
                                     endOffset |-> reported.endOffset])
        /\ contextMenu' = None /\ reported' = None /\ jump' = None
        /\ UNCHANGED <<shownDoc, currentPage, currentPageContent>>
        /\ UNCHANGED <<storageVars, modalVars, asyncVars, panelVars, serverVars>>

\* setCurrentPage(p) followed by the page fetch and the render of its result
ShowPage(p) ==
    /\ currentPage' = p
    /\ currentPageContent' = PageContentOf(shownDoc, p)
    /\ rendered' = HighlightText(currentPageContent', p, annotations)
    /\ contextMenu' = None /\ reported' = None

\* Previous button: setCurrentPage(p => Math.max(1, p - 1)), disabled on page 1
PreviousPage ==
    /\ currentPage # 1
    /\ ShowPage(Max(1, currentPage - 1))
    /\ jump' = None
    /\ UNCHANGED <<shownDoc, annotations, madeAt>>
    /\ UNCHANGED <<storageVars, modalVars, asyncVars, panelVars, serverVars>>

\* Next button: setCurrentPage(p => Math.min(totalPages || 1, p + 1))
NextPage ==
    LET last == IF totalPages[shownDoc] = 0 THEN 1 ELSE totalPages[shownDoc]
    IN  /\ currentPage # last
        /\ ShowPage(Min(last, currentPage + 1))
        /\ jump' = None
        /\ UNCHANGED <<shownDoc, annotations, madeAt>>
        /\ UNCHANGED <<storageVars, modalVars, asyncVars, panelVars, serverVars>>

\* A click on an annotation card: onJumpToAnnotation(annotation.startOffset)
\* dispatches jumpToAnnotation, and the viewer's handler computes the target.
JumpToAnnotation(i) ==
    LET globalStartOffsetFromEvent == annotations[i].startOffset
        targetPage == Floor(globalStartOffsetFromEvent, DEFAULT_CHUNK_SIZE) + 1
        localOffsetForScroll == globalStartOffsetFromEvent % DEFAULT_CHUNK_SIZE
    IN  /\ jump' = [startOffset |-> globalStartOffsetFromEvent,
                    targetPage |-> targetPage,
                    localOffset |-> localOffsetForScroll]
        /\ IF targetPage # currentPage
           THEN ShowPage(targetPage)
           ELSE /\ contextMenu' = None /\ reported' = None
                /\ UNCHANGED <<currentPage, currentPageContent, rendered>>
        /\ UNCHANGED <<shownDoc, annotations, madeAt>>
        /\ UNCHANGED <<storageVars, modalVars, asyncVars, panelVars, serverVars>>

\* the modal closed, as Home and AnnotationModal construct their state
ModalClosed ==
    /\ annotationModalOpen = FALSE /\ editingAnnotation = None
    /\ selection = [selectedText |-> <<>>, selectionRange |-> None]
    /\ annotationType = "highlight" /\ note = <<>> /\ color = "orange"
    /\ touched = {} /\ onSaveCalls = <<>>

\* nothing fetched by the viewer yet
ViewerQuiet ==
    /\ metadataCache = {} /\ isPageLoading = FALSE /\ pendingScrollOffset = {}
    /\ fetches = {} /\ timers = {} /\ scrolls = {} /\ jumps = <<>>
    /\ selects = <<>>

\* Two imported documents, the first page of one of them on screen
InitPage ==
    /\ documentChunks = NewChunks(1, DocTexts[1]) \o NewChunks(2, DocTexts[2])
    /\ totalPages = [d \in DocIds |-> TotalPagesFor(DocTexts[d])]
    /\ calls = [c \in Callers |-> Idle]
    /\ shownDoc \in DocIds
    /\ currentPage = 1
    /\ currentPageContent = PageContentOf(shownDoc, 1)
    /\ annotations = <<>>
    /\ rendered = HighlightText(currentPageContent, 1, annotations)
    /\ reported = None /\ contextMenu = None /\ jump = None /\ madeAt = <<>>
    /\ ModalClosed /\ ViewerQuiet /\ PanelQuiet /\ ServerQuiet

NextPageViewer ==
    \/ \E s \in 0..Len(TextContent(rendered)), e \in 0..Len(TextContent(rendered)) :
          s < e /\ HandleMouseUp(s, e)
    \/ ContextMenuCancel
    \/ \E ch \in ModalChoices : ContextMenuAnnotate(ch[1], ch[2])
    \/ PreviousPage
    \/ NextPage
    \/ \E i \in 1..Len(annotations) : JumpToAnnotation(i)

SpecPage == InitPage /\ [][NextPageViewer]_vars

(***************************************************************************)
(* Claims about the page viewer                                            *)
(***************************************************************************)
PageShown == currentPageContent # Null /\ currentPageContent # <<>>

PageBase == (currentPage - 1) * DEFAULT_CHUNK_SIZE

HasSpan(node, id) == \E k \in 1..Len(node.path) :
                        node.path[k].kind = "span" /\ node.path[k].id = id

PageTextLen == Len(TextContent(ParseHTML(currentPageContent)))

\* annotation id has a span element in the rendered page
Wrapped(id) == \E i \in 1..Len(rendered) : HasSpan(rendered[i], id)

AllWrapped(id) ==
    UNION { {rendered[i].text[k].o : k \in 1..Len(rendered[i].text)} :
                i \in {j \in 1..Len(rendered) : HasSpan(rendered[j], id)} }

\* the page characters inside annotation id's span, by their index in the page
\* text (inserted marker characters are not counted)
WrappedOrigins(id) ==
    {o \in 0..(PageTextLen - 1) : o \in AllWrapped(id)}


\* the page characters whose global offsets lie in [startOffset, endOffset)
OriginsInRange(a) ==
    {o \in 0..(PageTextLen - 1) : a.startOffset <= PageBase + o /\ PageBase + o < a.endOffset}

IntersectsPage(a) ==
    a.startOffset < PageBase + Len(currentPageContent) /\ a.endOffset > PageBase

Highlights == {i \in 1..Len(annotations) : annotations[i].type = "highlight"}

\* C3: for every selection reported to the callback of setupTextSelection, the
\* container's text at [startOffset, endOffset) is the reported text and
\* 0 <= startOffset < endOffset <= length of the container's text.
C3_ReportedRangeIsSelectedText ==
    reported # None =>
        LET textContent == Chars(TextContent(rendered))
        IN  /\ 0 <= reported.startOffset
            /\ reported.startOffset < reported.endOffset
            /\ reported.endOffset <= Len(textContent)
            /\ SubSeq(textContent, reported.startOffset + 1, reported.endOffset)
                 = reported.text

\* C4: on the rendered page a highlight annotation has a span if and only if
\* its global range intersects the page's global range, and the characters in
\* the span are exactly the page characters with global offsets in its range.
C4_WrappedIffIntersects ==
    PageShown =>
        \A i \in Highlights :
            LET a == annotations[i]
            IN  /\ Wrapped(a.id) <=> IntersectsPage(a)
                /\ Wrapped(a.id) => WrappedOrigins(a.id) = OriginsInRange(a)

\* C5: a selection made on page p sits in the context menu, and is stored, with
\* global offsets (p-1)*DEFAULT_CHUNK_SIZE + local offsets, and a jump event with
\* the stored startOffset computes page p and the same local offset.
C5_PageRoundTrip ==
    /\ contextMenu # None =>
          /\ contextMenu.startOffset = PageBase + reported.startOffset
          /\ contextMenu.endOffset = PageBase + reported.endOffset
    /\ \A i \in 1..Len(annotations) :
          LET a == annotations[i]
              m == madeAt[a.id]
          IN  /\ a.startOffset = (m.page - 1) * DEFAULT_CHUNK_SIZE + m.startOffset
              /\ a.endOffset = (m.page - 1) * DEFAULT_CHUNK_SIZE + m.endOffset
              /\ (jump # None /\ jump.startOffset = a.startOffset) =>
                    (jump.targetPage = m.page /\ jump.localOffset = m.startOffset)

\* two ranges with a common character
Overlap(a, b) == a.startOffset < b.endOffset /\ b.startOffset < a.endOffset

\* C6: of highlight annotations on the page whose ranges overlap (partially,
\* nested or identical), every one has its own span covering its own range.
\* Stated for a page that parses to a single text node, where nothing but the
\* overlap is in play.
C6_OverlappingAllRendered ==
    (PageShown /\ Len(ParseHTML(currentPageContent)) = 1) =>
        \A i \in Highlights, j \in Highlights :
            LET a == annotations[i]
                b == annotations[j]
            IN  (i # j /\ Overlap(a, b) /\ IntersectsPage(a) /\ IntersectsPage(b)) =>
                    (Wrapped(a.id) /\ WrappedOrigins(a.id) = OriginsInRange(a))

\* index of the text node of the parsed page holding the page character o
NodeOfOrigin(o) ==
    LET dom == ParseHTML(currentPageContent)
    IN  CHOOSE i \in 1..Len(dom) : \E k \in 1..Len(dom[i].text) : dom[i].text[k].o = o

\* C7: a highlight annotation whose range starts in one text node of the page
\* and ends in another one (also under another parent element) is rendered with
\* a highlight covering its whole range.
C7_MultiNodeRendered ==
    PageShown =>
        \A i \in Highlights :
            LET a == annotations[i]
                os == OriginsInRange(a)
            IN  (/\ os # {}
                 /\ \E o1 \in os, o2 \in os : NodeOfOrigin(o1) # NodeOfOrigin(o2)
                 /\ \A j \in Highlights : j # i => ~Overlap(a, annotations[j]))
                => (Wrapped(a.id) /\ WrappedOrigins(a.id) = os)

(***************************************************************************)
(* The annotation modal: src/unnamed/part_011 (AnnotationModal) and its    *)
(* wiring in client/src/pages/home.tsx                                     *)
(***************************************************************************)
\* annotations stored while the modal is exercised
MaxStored == 1

AnnotationTypes == {"highlight", "note", "bookmark"}

\* the color buttons of the modal
Colors == {"orange", "green", "pink", "blue"}

\* what the user types into the note field
NoteTexts == { <<>>, <<"n", " ">> }

\* the selections handed to onTextSelection: text, startOffset, endOffset
Selections == { <<<<"a", "b">>, 0, 2>>, <<<<"c">>, 2, 3>> }

\* the init effect of the modal, run when open or annotationToEdit changes
InitForm(annotationToEdit) ==
    IF annotationToEdit # None
    THEN /\ note' = IF Truthy(annotationToEdit.note) THEN annotationToEdit.note
                    ELSE <<>>
         /\ annotationType' = annotationToEdit.type
         /\ color' = annotationToEdit.color
    ELSE /\ note' = <<>>
         /\ annotationType' = "highlight"
         /\ color' = "orange"

\* handleTextSelection: the viewer's Annotate button opens the modal for a new
\* annotation
HandleTextSelection(text, startOffset, endOffset) ==
    /\ ~annotationModalOpen
    /\ selection' = [selectedText |-> text,
                     selectionRange |-> [startOffset |-> startOffset,
                                         endOffset |-> endOffset]]
    /\ editingAnnotation' = None
    /\ annotationModalOpen' = TRUE
    /\ InitForm(None)
    /\ touched' = {} /\ onSaveCalls' = <<>>
    /\ UNCHANGED <<pageVars, storageVars, asyncVars, panelVars, serverVars>>

\* handleOpenAnnotationModal(annotation): Edit on an annotation card
HandleOpenAnnotationModal(i) ==
    /\ ~annotationModalOpen
    /\ editingAnnotation' = annotations[i]
    /\ selection' = [selection EXCEPT !.selectedText = annotations[i].selectedText]
    /\ annotationModalOpen' = TRUE
    /\ InitForm(annotations[i])
    /\ touched' = {} /\ onSaveCalls' = <<>>
    /\ UNCHANGED <<pageVars, storageVars, asyncVars, panelVars, serverVars>>

\* the three type buttons; the Note button also resets the color
SetAnnotationType(t) ==
    /\ annotationModalOpen
    /\ annotationType' = t
    /\ color' = IF t = "note" THEN "orange" ELSE color
    /\ touched' = touched \cup {"type"}
    /\ UNCHANGED <<annotationModalOpen, editingAnnotation, selection, note,
                   onSaveCalls>>
    /\ UNCHANGED <<pageVars, storageVars, asyncVars, panelVars, serverVars>>

\* a color button, rendered only while the type is highlight
SetColor(c) ==
    /\ annotationModalOpen
    /\ annotationType = "highlight"
    /\ color' = c
    /\ touched' = touched \cup {"color"}
    /\ UNCHANGED <<annotationModalOpen, editingAnnotation, selection,
                   annotationType, note, onSaveCalls>>
    /\ UNCHANGED <<pageVars, storageVars, asyncVars, panelVars, serverVars>>

\* typing in the note field
SetNote(n) ==
    /\ annotationModalOpen
    /\ note' = n
    /\ touched' = touched \cup {"note"}
    /\ UNCHANGED <<annotationModalOpen, editingAnnotation, selection,
                   annotationType, color, onSaveCalls>>
    /\ UNCHANGED <<pageVars, storageVars, asyncVars, panelVars, serverVars>>

\* handleSubmit, edit branch, with the color always taken from the form
EditData_FormColor(annotationToEdit) ==
    [note |-> Trim(note), type |-> annotationType, color |-> color]

\* handleSubmit, edit branch: dataToSave
EditData(annotationToEdit) ==
    [note |-> Trim(note),
     type |-> annotationType,
     color |-> IF annotationType = "highlight" THEN color
               ELSE IF annotationToEdit.type = "highlight"
                    THEN annotationToEdit.color
                    ELSE "orange"]

\* handleSubmit, new branch, as completed by handleSaveAnnotation from the
\* page's own state
NewData ==
    [documentId |-> shownDoc,
     type |-> annotationType,
     selectedText |-> selection.selectedText,
     note |-> NoteToSave(annotationType, note),
     color |-> IF annotationType = "highlight" THEN color ELSE "orange",
     pageNumber |-> 1,
     startOffset |-> selection.selectionRange.startOffset,
     endOffset |-> selection.selectionRange.endOffset]

\* storage.updateAnnotation: set the given fields on the row with that id
UpdateAnnotation(rows, id, updates) ==
    [k \in 1..Len(rows) |->
        IF rows[k].id = id
        THEN [rows[k] EXCEPT !.note = updates.note, !.type = updates.type,
                             !.color = updates.color]
        ELSE rows[k]]

\* storage.createAnnotation followed by the refetch of the list
CreateAnnotation(rows, data) ==
    <<[id |-> Len(rows) + 1, type |-> data.type, selectedText |-> data.selectedText,
       note |-> data.note, color |-> data.color, documentId |-> data.documentId,
       pageNumber |-> data.pageNumber, startOffset |-> data.startOffset,
       endOffset |-> data.endOffset]>> \o rows

\* The Update / Save button: handleSubmit, onSave = handleSaveAnnotation, the
\* PATCH or POST it sends, the refetch of the annotations and handleClose;
\* maxStored caps the rows the table holds.
Submit(maxStored) ==
    /\ annotationModalOpen
    /\ touched' = touched \cup {"update"}
    /\ IF editingAnnotation # None
       THEN LET dataToSave == EditData(editingAnnotation)
            IN  /\ onSaveCalls' = Append(onSaveCalls,
                        [data |-> dataToSave, idToUpdate |-> editingAnnotation.id])
                /\ annotations' = UpdateAnnotation(annotations, editingAnnotation.id,
                                                   dataToSave)
                /\ UNCHANGED <<note, annotationType, color>>
       ELSE \* the button is disabled while the selected text is blank
            /\ Trim(selection.selectedText) # <<>>
            /\ selection.selectionRange # None
            /\ Len(annotations) < maxStored
            /\ onSaveCalls' = Append(onSaveCalls, [data |-> NewData, idToUpdate |-> 0])
            /\ annotations' = CreateAnnotation(annotations, NewData)
            /\ InitForm(None)
    /\ annotationModalOpen' = FALSE
    /\ rendered' = HighlightText(currentPageContent, currentPage, annotations')
    /\ UNCHANGED <<editingAnnotation, selection>>
    /\ UNCHANGED <<shownDoc, currentPage, currentPageContent, reported, contextMenu,
                   jump, madeAt>>
    /\ UNCHANGED <<storageVars, asyncVars, panelVars, serverVars>>

\* the Update / Save button of the modal
HandleSubmit ==
    /\ annotationModalOpen
    /\ Submit(MaxStored)

\* Cancel (or closing the dialog): handleClose
HandleClose ==
    /\ annotationModalOpen
    /\ IF editingAnnotation = None THEN InitForm(None)
       ELSE UNCHANGED <<note, annotationType, color>>
    /\ annotationModalOpen' = FALSE
    /\ UNCHANGED <<editingAnnotation, selection, touched, onSaveCalls>>
    /\ UNCHANGED <<pageVars, storageVars, asyncVars, panelVars, serverVars>>

\* a document on screen, no annotation yet, the modal closed
InitModal ==
    /\ documentChunks = NewChunks(1, DocTexts[1]) \o NewChunks(2, DocTexts[2])
    /\ totalPages = [d \in DocIds |-> TotalPagesFor(DocTexts[d])]
    /\ calls = [c \in Callers |-> Idle]
    /\ shownDoc = 1
    /\ currentPage = 1
    /\ currentPageContent = PageContentOf(shownDoc, 1)
    /\ annotations = <<>>
    /\ rendered = HighlightText(currentPageContent, 1, annotations)
    /\ reported = None /\ contextMenu = None /\ jump = None /\ madeAt = <<>>
    /\ ModalClosed /\ ViewerQuiet /\ PanelQuiet /\ ServerQuiet

NextModal ==
    \/ \E sel \in Selections : HandleTextSelection(sel[1], sel[2], sel[3])
    \/ \E i \in 1..Len(annotations) : HandleOpenAnnotationModal(i)
    \/ \E t \in AnnotationTypes : SetAnnotationType(t)
    \/ \E c \in Colors : SetColor(c)
    \/ \E n \in NoteTexts : SetNote(n)
    \/ HandleSubmit
    \/ HandleClose

SpecModal == InitModal /\ [][NextModal]_vars

(***************************************************************************)
(* Claims about the annotation modal                                       *)
(***************************************************************************)
\* the Update button was clicked on the annotation still held for editing
Updated == ~annotationModalOpen /\ editingAnnotation # None /\ "update" \in touched

\* C9: in edit mode a click on Update calls onSave exactly once, with the
\* edited annotation's id as second argument and with data {note, type, color}
\* whose type is the selected type and whose color is the selected color when
\* that type is highlight, and the annotation's original color when the type
\* is not highlight and the original type was highlight.
C9_UpdateCallsOnSaveOnce ==
    Updated =>
        /\ Len(onSaveCalls) = 1
        /\ onSaveCalls[1].idToUpdate = editingAnnotation.id
        /\ DOMAIN onSaveCalls[1].data = {"note", "type", "color"}
        /\ onSaveCalls[1].data.note = Trim(note)
        /\ onSaveCalls[1].data.type = annotationType
        /\ annotationType = "highlight" => onSaveCalls[1].data.color = color
        /\ (annotationType # "highlight" /\ editingAnnotation.type = "highlight")
               => onSaveCalls[1].data.color = editingAnnotation.color

\* a highlight with a color of its own was edited into a note and updated
C9_Witness ==
    /\ Updated
    /\ editingAnnotation.type = "highlight" /\ editingAnnotation.color = "pink"
    /\ annotationType = "note" /\ color = "orange"
    /\ onSaveCalls[1].data.color = "pink"

\* C10: in edit mode, when only the note text was changed before Update, onSave
\* receives the annotation's original type and original color, whatever the
\* original type and color are.
C10_OnlyNoteChangedKeepsTypeAndColor ==
    (Updated /\ touched = {"note", "update"} /\ note # editingAnnotation.note) =>
        /\ onSaveCalls[1].data.type = editingAnnotation.type
        /\ onSaveCalls[1].data.color = editingAnnotation.color

(***************************************************************************)
(* The paginated viewer with its page fetches in flight:                   *)
(* client/src/components/document-viewer.tsx.  State updates made in one   *)
(* handler or callback are rendered together, and the effects of that      *)
(* render run before the next event, so each action below is a handler     *)
(* with the render and the effect runs it causes.                          *)
(***************************************************************************)
\* jumpToAnnotation events handled in one behaviour
MaxJumps == 2

\* page fetches and timers outstanding when the user acts again
MaxInFlight == 2

\* the pages that the offsets of jumpToAnnotation events fall on
MaxJumpPage == 3

\* the startOffset carried by a jumpToAnnotation event
JumpOffsets == { (p - 1) * DEFAULT_CHUNK_SIZE + 1 : p \in 1..MaxJumpPage }

\* the data of the metadata query for the document on screen, None without it
documentMetadata ==
    IF shownDoc \in metadataCache
    THEN [id |-> shownDoc, totalPages |-> totalPages[shownDoc]]
    ELSE None

\* the last event that set pendingScrollOffset
LastPendingJump(js) ==
    LET ks == { k \in 1..Len(js) : js[k].via = "pending" }
    IN  IF ks = {} THEN 0 ELSE CHOOSE k \in ks : \A j \in ks : j <= k

\* One run of the page fetch effect: the getSECDocumentPage call it starts,
\* with the documentId, currentPage and pendingScrollOffset of its render (by:
\* the event that pending offset comes from)
EffectFetch(d, p, pend, js) ==
    [doc |-> d, page |-> p, pending |-> pend,
     by |-> IF pend = {} THEN 0 ELSE LastPendingJump(js)]

TargetPage(g) == Floor(g, DEFAULT_CHUNK_SIZE) + 1

Outstanding == Cardinality(fetches) + Cardinality(timers)

\* the .then callback sets a timer for the pending scroll even without a chunk
SchedulesTimer_WithoutChunk(f, chunk) ==
    /\ f.pending # {}
    /\ \E g \in f.pending : f.page = TargetPage(g)

\* the .then callback sets the 50 ms timer for the pending scroll
SchedulesTimer(f, chunk) ==
    /\ chunk # Null
    /\ f.pending # {}
    /\ \E g \in f.pending : f.page = TargetPage(g)

\* the metadata query of the document on screen delivers its data; the page
\* fetch effect runs for the first time with it
MetadataLoaded ==
    /\ shownDoc \notin metadataCache
    /\ metadataCache' = metadataCache \cup {shownDoc}
    /\ isPageLoading' = TRUE
    /\ currentPageContent' = Null
    /\ fetches' = fetches \cup
                    {EffectFetch(shownDoc, currentPage, pendingScrollOffset, jumps)}
    /\ rendered' = HighlightText(currentPageContent', currentPage, annotations)
    /\ UNCHANGED <<shownDoc, currentPage, pendingScrollOffset, timers, scrolls, jumps>>
    /\ UNCHANGED <<annotations, reported, contextMenu, jump, madeAt>>
    /\ UNCHANGED <<storageVars, modalVars, panelVars, serverVars, selects>>

\* The documentId prop changes to d.  With the metadata of d in the query cache
\* the page fetch effect runs at once, still with the page and the pending
\* offset of the render; the reset effect then sets page 1 and no pending
\* offset, and where that changes something the fetch effect runs again.
ShowDocument(d) ==
    LET cached == d \in metadataCache
        first == EffectFetch(d, currentPage, pendingScrollOffset, jumps)
        again == currentPage # 1 \/ pendingScrollOffset # {}
        second == EffectFetch(d, 1, {}, jumps)
    IN  /\ d # shownDoc
        /\ Outstanding < MaxInFlight
        /\ shownDoc' = d
        /\ currentPage' = 1
        /\ pendingScrollOffset' = {}
        /\ IF cached
           THEN /\ isPageLoading' = TRUE
                /\ currentPageContent' = Null
                /\ fetches' = fetches \cup {first} \cup
                                (IF again THEN {second} ELSE {})
           ELSE UNCHANGED <<isPageLoading, currentPageContent, fetches>>
        /\ rendered' = HighlightText(currentPageContent', 1, annotations)
        /\ contextMenu' = None /\ reported' = None
        /\ UNCHANGED <<metadataCache, timers, scrolls, jumps>>
        /\ UNCHANGED <<annotations, jump, madeAt>>
        /\ UNCHANGED <<storageVars, modalVars, panelVars, serverVars>>

\* handleDocumentSelect(d): a document picked in the sidebar
SelectDocument(d) ==
    /\ ShowDocument(d)
    /\ UNCHANGED selects

\* setCurrentPage(p) from a button of the viewer, and the effect run for it
ClickPage(p) ==
    /\ documentMetadata # None
    /\ ~isPageLoading
    /\ p # currentPage
    /\ Outstanding < MaxInFlight
    /\ currentPage' = p
    /\ isPageLoading' = TRUE
    /\ currentPageContent' = Null
    /\ fetches' = fetches \cup {EffectFetch(shownDoc, p, pendingScrollOffset, jumps)}
    /\ rendered' = HighlightText(currentPageContent', p, annotations)
    /\ UNCHANGED <<shownDoc, metadataCache, pendingScrollOffset, timers, scrolls, jumps>>
    /\ UNCHANGED <<annotations, reported, contextMenu, jump, madeAt>>
    /\ UNCHANGED <<storageVars, modalVars, panelVars, serverVars, selects>>

\* Previous button
ClickPrevious ==
    /\ currentPage # 1
    /\ ClickPage(Max(1, currentPage - 1))

\* Next button
ClickNext ==
    /\ documentMetadata # None
    /\ ClickPage(Min(IF documentMetadata.totalPages = 0 THEN 1
                     ELSE documentMetadata.totalPages, currentPage + 1))

\* The jumpToAnnotation handler of the viewer, for an event carrying g
HandleJump(g) ==
    LET targetPage == Floor(g, DEFAULT_CHUNK_SIZE) + 1
        localOffsetForScroll == g % DEFAULT_CHUNK_SIZE
        event == [startOffset |-> g, targetPage |-> targetPage, doc |-> shownDoc,
                  via |-> IF targetPage # currentPage THEN "pending" ELSE "direct",
                  loaded |-> FALSE, scrolled |-> FALSE]
    IN  /\ documentMetadata # None
        /\ Len(jumps) < MaxJumps
        /\ Outstanding < MaxInFlight
        /\ jumps' = Append(jumps, event)
        /\ IF targetPage # currentPage
           THEN /\ pendingScrollOffset' = {g}
                /\ currentPage' = targetPage
                /\ isPageLoading' = TRUE
                /\ currentPageContent' = Null
                /\ fetches' = fetches \cup
                                {EffectFetch(shownDoc, targetPage, {g}, jumps')}
                /\ UNCHANGED scrolls
           ELSE /\ scrolls' = scrolls \cup
                        {[offset |-> g, local |-> localOffsetForScroll,
                          via |-> "direct"]}
                /\ UNCHANGED <<pendingScrollOffset, currentPage, isPageLoading,
                               currentPageContent, fetches>>
        /\ rendered' = HighlightText(currentPageContent', currentPage', annotations)
        /\ UNCHANGED <<shownDoc, metadataCache, timers>>
        /\ UNCHANGED <<annotations, reported, contextMenu, jump, madeAt>>
        /\ UNCHANGED <<storageVars, modalVars, panelVars, serverVars>>

\* a jumpToAnnotation event dispatched on the window
JumpEvent(g) ==
    /\ HandleJump(g)
    /\ UNCHANGED selects

\* The page fetch effect runs again after pendingScrollOffset changed from
\* pend to null, when the viewer has a document and its metadata
RunsAgain(pend) == pend # {} /\ documentMetadata # None

\* The response to the page fetch f: getSECDocumentPage resolves with the
\* chunk, or with null on a 404 or on an error (ok false); then the .then and
\* .finally callbacks of the effect run that made the call.
FetchResponds(f, ok) ==
    LET chunk == IF ok THEN PageContentOf(f.doc, f.page) ELSE Null
        timer == SchedulesTimer(f, chunk)
        g == CHOOSE g \in f.pending : TRUE
        pend == IF timer \/ (chunk # Null /\ f.pending = {})
                THEN pendingScrollOffset ELSE {}
        again == RunsAgain(pendingScrollOffset) /\ pend = {}
    IN  /\ f \in fetches
        /\ pendingScrollOffset' = pend
        /\ timers' = IF timer
                     THEN timers \cup {[pending |-> g,
                                        local |-> g % DEFAULT_CHUNK_SIZE,
                                        by |-> f.by]}
                     ELSE timers
        /\ jumps' = IF f.by # 0 /\ chunk # Null /\ f.page = jumps[f.by].targetPage
                    THEN [jumps EXCEPT ![f.by].loaded = TRUE]
                    ELSE jumps
        /\ currentPageContent' = IF again THEN Null ELSE chunk
        /\ isPageLoading' = again
        /\ fetches' = (fetches \ {f}) \cup
                        (IF again
                         THEN {EffectFetch(shownDoc, currentPage, {}, jumps)}
                         ELSE {})
        /\ rendered' = HighlightText(currentPageContent', currentPage, annotations)
        /\ UNCHANGED <<shownDoc, currentPage, metadataCache, scrolls>>
        /\ UNCHANGED <<annotations, reported, contextMenu, jump, madeAt>>
        /\ UNCHANGED <<storageVars, modalVars, panelVars, serverVars, selects>>

\* The 50 ms timer t fires: scrollToOffset with the offsets of its closure,
\* then setPendingScrollOffset(null)
TimerFires(t) ==
    LET again == RunsAgain(pendingScrollOffset)
    IN  /\ t \in timers
        /\ timers' = timers \ {t}
        /\ scrolls' = scrolls \cup
                        {[offset |-> t.pending, local |-> t.local, via |-> "timer"]}
        /\ jumps' = [jumps EXCEPT ![t.by].scrolled = TRUE]
        /\ pendingScrollOffset' = {}
        /\ currentPageContent' = IF again THEN Null ELSE currentPageContent
        /\ isPageLoading' = IF again THEN TRUE ELSE isPageLoading
        /\ fetches' = fetches \cup
                        (IF again
                         THEN {EffectFetch(shownDoc, currentPage, {}, jumps)}
                         ELSE {})
        /\ rendered' = HighlightText(currentPageContent', currentPage, annotations)
        /\ UNCHANGED <<shownDoc, currentPage, metadataCache>>
        /\ UNCHANGED <<annotations, reported, contextMenu, jump, madeAt>>
        /\ UNCHANGED <<storageVars, modalVars, panelVars, serverVars, selects>>

\* the viewer mounted on one of two imported documents, nothing loaded yet
InitViewer ==
    /\ documentChunks = NewChunks(1, DocTexts[1]) \o NewChunks(2, DocTexts[2])
    /\ totalPages = [d \in DocIds |-> TotalPagesFor(DocTexts[d])]
    /\ calls = [c \in Callers |-> Idle]
    /\ shownDoc \in DocIds
    /\ currentPage = 1
    /\ currentPageContent = Null
    /\ annotations = <<>>
    /\ rendered = HighlightText(currentPageContent, 1, annotations)
    /\ reported = None /\ contextMenu = None /\ jump = None /\ madeAt = <<>>
    /\ ModalClosed /\ ViewerQuiet /\ PanelQuiet /\ ServerQuiet

\* every page fetch and every timer the viewer can have outstanding
AllFetches ==
    [doc : DocIds, page : 1..MaxJumpPage, pending : {{}}, by : {0}] \cup
    [doc : DocIds, page : 1..MaxJumpPage, pending : {{g} : g \in JumpOffsets},
     by : 1..MaxJumps]

AllTimers ==
    { [pending |-> g, local |-> g % DEFAULT_CHUNK_SIZE, by |-> k] :
        g \in JumpOffsets, k \in 1..MaxJumps }

NextViewer ==
    \/ MetadataLoaded
    \/ \E d \in DocIds : SelectDocument(d)
    \/ ClickPrevious
    \/ ClickNext
    \/ \E g \in JumpOffsets : JumpEvent(g)
    \/ \E f \in fetches, ok \in BOOLEAN : FetchResponds(f, ok)
    \/ \E t \in timers : TimerFires(t)

SpecViewer == InitViewer /\ [][NextViewer]_vars

\* every request is answered and every timer fires
ViewerFairness ==
    /\ \A f \in AllFetches : WF_vars(\E ok \in BOOLEAN : FetchResponds(f, ok))
    /\ \A t \in AllTimers : WF_vars(TimerFires(t))

SpecViewerLive == SpecViewer /\ ViewerFairness

(***************************************************************************)
(* Claims about jumps to another page                                      *)
(***************************************************************************)
\* the handler acts on an event for an offset of another page by setting the
\* pending offset and the target page
JumpSwitchesPage ==
    (Len(jumps') = Len(jumps) + 1 /\ jumps'[Len(jumps')].via = "pending") =>
        LET g == jumps'[Len(jumps')].startOffset
        IN  /\ currentPage' = (g \div DEFAULT_CHUNK_SIZE) + 1
            /\ currentPage' # currentPage
            /\ pendingScrollOffset' = {g}

\* the scroll of a jump to another page was made only after the page fetch of
\* that jump had set the content of the target page
ScrollAfterContent ==
    \A k \in 1..Len(jumps) :
        (jumps[k].via = "pending" /\ jumps[k].scrolled) => jumps[k].loaded

\* jump k went to another page and its page fetch has set the target page's
\* content
JumpLoaded(k) == k <= Len(jumps) /\ jumps[k].via = "pending" /\ jumps[k].loaded

\* scrollToOffset was called for jump k from the timer, and the pending offset
\* is null
JumpScrolled(k) ==
    /\ k <= Len(jumps) /\ jumps[k].scrolled
    /\ [offset |-> jumps[k].startOffset,
        local |-> jumps[k].startOffset % DEFAULT_CHUNK_SIZE,
        via |-> "timer"] \in scrolls
    /\ pendingScrollOffset = {}

MaxClicks == 3

\* the annotations of document 1 the panel lists, newest first
PanelAnnotations ==
    << [id |-> 2, type |-> "highlight", selectedText |-> <<"f">>, note |-> Null,
        color |-> "orange", documentId |-> 1, pageNumber |-> 1,
        startOffset |-> 5, endOffset |-> 6],
       [id |-> 1, type |-> "highlight", selectedText |-> <<"a", "b">>,
        note |-> <<"n">>, color |-> "pink", documentId |-> 1, pageNumber |-> 1,
        startOffset |-> 0, endOffset |-> 2] >>

\* a click on the delete button also reaches the card around it
DeleteClickPropagates_NoStop == TRUE

\* e.stopPropagation() in the delete button's handler: the click does not
\* reach the card
DeleteClickPropagates == FALSE

\* onClick of an annotation card: onJumpToAnnotation(annotation.startOffset),
\* which the viewer handles, and setSelectedAnnotationForAmend(annotation)
CardClicked(a) ==
    LET globalStartOffsetFromEvent == a.startOffset
        targetPage == Floor(globalStartOffsetFromEvent, DEFAULT_CHUNK_SIZE) + 1
        localOffsetForScroll == globalStartOffsetFromEvent % DEFAULT_CHUNK_SIZE
    IN  /\ jump' = [startOffset |-> globalStartOffsetFromEvent,
                    targetPage |-> targetPage,
                    localOffset |-> localOffsetForScroll]
        /\ IF targetPage # currentPage
           THEN ShowPage(targetPage)
           ELSE /\ contextMenu' = None /\ reported' = None
                /\ UNCHANGED <<currentPage, currentPageContent, rendered>>
        /\ selectedAnnotationForAmend' = a

\* a click on the card of annotations[i]
PanelCardClick(i) ==
    /\ Len(clicks) < MaxClicks
    /\ clicks' = Append(clicks, [button |-> "card", id |-> annotations[i].id])
    /\ CardClicked(annotations[i])
    /\ UNCHANGED <<shownDoc, annotations, madeAt>>
    /\ UNCHANGED <<deleteInFlight, mutateCalls, toasts, invalidated>>
    /\ UNCHANGED <<storageVars, modalVars, asyncVars, serverVars>>

\* a click on the delete button of annotations[i], disabled while a delete is
\* pending: deleteAnnotationMutation.mutate(annotation.id)
PanelDeleteClick(i) ==
    /\ Len(clicks) < MaxClicks
    /\ deleteInFlight = {}
    /\ clicks' = Append(clicks, [button |-> "delete", id |-> annotations[i].id])
    /\ mutateCalls' = Append(mutateCalls, annotations[i].id)
    /\ deleteInFlight' = {annotations[i].id}
    /\ IF DeleteClickPropagates
       THEN CardClicked(annotations[i])
       ELSE UNCHANGED <<jump, currentPage, currentPageContent, rendered, contextMenu,
                        reported, selectedAnnotationForAmend>>
    /\ UNCHANGED <<shownDoc, annotations, madeAt>>
    /\ UNCHANGED <<toasts, invalidated>>
    /\ UNCHANGED <<storageVars, modalVars, asyncVars, serverVars>>

\* the annotations query invalidated whatever the outcome of the delete
InvalidatedBy_Settled(ok) == << <<"/api/documents", shownDoc, "annotations">> >>

\* the query keys invalidated by the callbacks of the delete mutation: onSuccess
\* invalidates the annotations query of the panel's document, onError none
InvalidatedBy(ok) ==
    IF ok THEN << <<"/api/documents", shownDoc, "annotations">> >> ELSE <<>>

\* storage.deleteAnnotation
DeleteAnnotation(rows, id) == SelectSeq(rows, LAMBDA row : row.id # id)

\* The answer to DELETE /api/annotations/:id: the route deletes the row and
\* answers 200, or answers 500 when the delete throws; then onSuccess or
\* onError of the mutation, and the refetch of an invalidated list.
DeleteResponds(id, ok) ==
    /\ id \in deleteInFlight
    /\ deleteInFlight' = deleteInFlight \ {id}
    /\ lastResponse' = [route |-> "DELETE /api/annotations/:id", id |-> id,
                        status |-> IF ok THEN 200 ELSE 500]
    /\ invalidated' = invalidated \o InvalidatedBy(ok)
    /\ IF ok
       THEN /\ annotations' = DeleteAnnotation(annotations, id)
            /\ toasts' = Append(toasts, [title |-> "Annotation deleted",
                                         variant |-> "default"])
       ELSE /\ toasts' = Append(toasts, [title |-> "Error",
                                         variant |-> "destructive"])
            /\ UNCHANGED annotations
    /\ rendered' = HighlightText(currentPageContent, currentPage, annotations')
    /\ UNCHANGED <<shownDoc, currentPage, currentPageContent, reported, contextMenu,
                   jump, madeAt>>
    /\ UNCHANGED <<selectedAnnotationForAmend, clicks, mutateCalls>>
    /\ UNCHANGED <<companies, documents, imports>>
    /\ UNCHANGED <<storageVars, modalVars, asyncVars>>

\* document 1 on screen with its two annotations listed in the panel
InitPanel ==
    /\ documentChunks = NewChunks(1, DocTexts[1]) \o NewChunks(2, DocTexts[2])
    /\ totalPages = [d \in DocIds |-> TotalPagesFor(DocTexts[d])]
    /\ calls = [c \in Callers |-> Idle]
    /\ shownDoc = 1
    /\ currentPage = 1
    /\ currentPageContent = PageContentOf(shownDoc, 1)
    /\ annotations = PanelAnnotations
    /\ rendered = HighlightText(currentPageContent, 1, annotations)
    /\ reported = None /\ contextMenu = None /\ jump = None /\ madeAt = <<>>
    /\ ModalClosed /\ ViewerQuiet /\ PanelQuiet /\ ServerQuiet

NextPanel ==
    \/ \E i \in 1..Len(annotations) : PanelCardClick(i)
    \/ \E i \in 1..Len(annotations) : PanelDeleteClick(i)
    \/ \E id \in deleteInFlight, ok \in BOOLEAN : DeleteResponds(id, ok)
    \/ PreviousPage
    \/ NextPage

SpecPanel == InitPanel /\ [][NextPanel]_vars

(***************************************************************************)
(* Claims about the annotation panel                                       *)
(***************************************************************************)
\* the step is a click on a delete button
DeleteClickStep ==
    Len(clicks') = Len(clicks) + 1 /\ clicks'[Len(clicks')].button = "delete"

\* C11: a click on the delete button of annotation a calls the delete mutation
\* with a.id and with nothing else, does not jump to the annotation (no event,
\* no page change) and does not select it for amend.
C11_DeleteClickOnlyDeletes ==
    [][DeleteClickStep =>
          /\ mutateCalls' = Append(mutateCalls, clicks'[Len(clicks')].id)
          /\ deleteInFlight' = {clicks'[Len(clicks')].id}
          /\ jump' = jump /\ currentPage' = currentPage
          /\ selectedAnnotationForAmend' = selectedAnnotationForAmend]_vars

\* one annotation was selected by a click on its card, then the delete button
\* of the other one was clicked
C11_Witness ==
    /\ Len(clicks) = 2
    /\ clicks[1].button = "card" /\ clicks[2].button = "delete"
    /\ clicks[1].id # clicks[2].id
    /\ selectedAnnotationForAmend # None
    /\ selectedAnnotationForAmend.id = clicks[1].id
    /\ mutateCalls = <<clicks[2].id>>

\* the step is the answer to a delete request
DeleteAnswerStep ==
    /\ deleteInFlight # {} /\ deleteInFlight' = {}
    /\ lastResponse'.route = "DELETE /api/annotations/:id"

\* C12: when a delete succeeds the annotations query of the document is
\* invalidated and the toast "Annotation deleted" is shown; when it fails a
\* destructive "Error" toast is shown and the query is not invalidated.
C12_DeleteOutcomeHandled ==
    [][DeleteAnswerStep =>
          IF lastResponse'.status = 200
          THEN /\ invalidated' = Append(invalidated,
                        <<"/api/documents", shownDoc, "annotations">>)
               /\ Len(toasts') = Len(toasts) + 1
               /\ toasts'[Len(toasts')].title = "Annotation deleted"
          ELSE /\ invalidated' = invalidated
               /\ toasts' = Append(toasts, [title |-> "Error",
                                            variant |-> "destructive"])]_vars

\* a failed delete was followed by a successful one
C12_Witness ==
    /\ Len(toasts) = 2
    /\ toasts[1].title = "Error" /\ toasts[2].title = "Annotation deleted"
    /\ Len(invalidated) = 1
    /\ Len(annotations) = 1

(***************************************************************************)
(* The server routes: server/routes.ts (second registerRoutes), over the   *)
(* tables of src/unnamed/part_013                                          *)
(***************************************************************************)
\* the accession numbers of the filings clients ask to import
Accessions == {"acc1", "acc2"}

\* the cik values clients send
Ciks == { <<"c", "1">>, <<"c", "2">> }

\* the q parameter of a company search; the empty one stands for a missing q
Queries == { <<>>, <<"c">>, <<"2">> }

\* what SEC answers a server-side fetch with: a body, a non-2xx status, or
\* nothing (the fetch throws)
SecOutcomes == {"ok", "notok", "error"}

ProxyRoutes ==
    {"GET /api/companies/search", "GET /api/sec/company/:cik/filings",
     "GET /api/sec/document"}

\* next value of the serial id of table documents
NextDocumentId == Cardinality(documents) + 1

\* import requests received that will still insert a document row
ImportsBeforeInsert == { r \in Callers : imports[r].pc \in {"fetch", "create"} }

\* String.trim() === '' for the fetched body
Blank(str) == Trim(str) = <<>>

\* the route answers the request of slot r
Responded(r, status) ==
    [pc |-> "responded", status |-> status,
     accessionNumber |-> imports[r].accessionNumber, docId |-> imports[r].docId,
     content |-> imports[r].content]

\* an insert into documents is accepted whatever accession numbers are stored
UniqueViolation_Unchecked(rows, accessionNumber) == FALSE

\* accession_number is declared unique: the insert of a second row with the
\* same value is rejected
UniqueViolation(rows, accessionNumber) ==
    \E row \in rows : row.accessionNumber = accessionNumber

\* POST /api/documents arrives: the body is parsed against importRequestSchema
ImportReceive(r, accessionNumber, valid) ==
    /\ imports[r].pc = "idle"
    /\ Cardinality(documents) + Cardinality(ImportsBeforeInsert)
          < Cardinality(DocIds)
    /\ imports' = [imports EXCEPT ![r] =
            IF valid
            THEN [pc |-> "fetch", status |-> 0, accessionNumber |-> accessionNumber,
                  docId |-> 0, content |-> <<>>]
            ELSE [pc |-> "responded", status |-> 400,
                  accessionNumber |-> accessionNumber, docId |-> 0,
                  content |-> <<>>]]
    /\ UNCHANGED <<companies, documents, lastResponse>>
    /\ UNCHANGED <<storageVars, pageVars, modalVars, asyncVars, panelVars>>

\* the fetch of validatedData.documentUrl settles
ImportSecAnswers(r, outcome, fullContent) ==
    /\ imports[r].pc = "fetch"
    /\ imports' = [imports EXCEPT ![r] =
            CASE outcome = "notok" -> Responded(r, 502)
              [] outcome = "error" -> Responded(r, 503)
              [] outcome = "ok" /\ (fullContent = <<>> \/ Blank(fullContent))
                    -> Responded(r, 400)
              [] OTHER -> [imports[r] EXCEPT !.pc = "create",
                                             !.content = fullContent]]
    /\ UNCHANGED <<companies, documents, lastResponse>>
    /\ UNCHANGED <<storageVars, pageVars, modalVars, asyncVars, panelVars>>

\* storage.createDocument: the insert into documents, which the database
\* rejects for a duplicate accession number or fails for a reason of its own
ImportCreateDocument(r, dbOk) ==
    LET id == NextDocumentId
    IN  /\ imports[r].pc = "create"
        /\ id \in DocIds
        /\ IF dbOk /\ ~UniqueViolation(documents, imports[r].accessionNumber)
           THEN /\ documents' = documents \cup
                        {[id |-> id, companyId |-> 1,
                          accessionNumber |-> imports[r].accessionNumber]}
                /\ totalPages' = [totalPages EXCEPT ![id] = 0]
                /\ imports' = [imports EXCEPT ![r].pc = "chunk", ![r].docId = id]
           ELSE /\ imports' = [imports EXCEPT ![r] = Responded(r, 500)]
                /\ UNCHANGED <<documents, totalPages>>
        /\ UNCHANGED <<companies, lastResponse, documentChunks, calls>>
        /\ UNCHANGED <<pageVars, modalVars, asyncVars, panelVars>>

\* storage.updateDocumentContent(newDocumentMetadata.id, fullContent) starts
ImportChunks(r) ==
    /\ imports[r].pc = "chunk"
    /\ UDC_Delete(r, imports[r].docId, imports[r].content)

\* an awaited statement of updateDocumentContent rejects: the route's catch
\* block answers 500
ImportChunkingThrows(r) ==
    /\ imports[r].pc = "chunk"
    /\ calls[r].pc \in {"idle", "insert", "update"}
    /\ calls' = [calls EXCEPT ![r] = Idle]
    /\ imports' = [imports EXCEPT ![r] = Responded(r, 500)]
    /\ UNCHANGED <<companies, documents, lastResponse, documentChunks, totalPages>>
    /\ UNCHANGED <<pageVars, modalVars, asyncVars, panelVars>>

\* updateDocumentContent has returned: storage.getDocument and the answer
ImportRespond(r) ==
    /\ imports[r].pc = "chunk"
    /\ calls[r].pc = "done"
    /\ calls' = [calls EXCEPT ![r] = Idle]
    /\ imports' = [imports EXCEPT ![r] =
            IF \E row \in documents : row.id = imports[r].docId
            THEN Responded(r, 201) ELSE Responded(r, 500)]
    /\ UNCHANGED <<companies, documents, lastResponse, documentChunks, totalPages>>
    /\ UNCHANGED <<pageVars, modalVars, asyncVars, panelVars>>

\* the connection of an answered request is closed
ImportClosed(r) ==
    /\ imports[r].pc = "responded"
    /\ imports' = [imports EXCEPT ![r] = NoImport]
    /\ UNCHANGED <<companies, documents, lastResponse>>
    /\ UNCHANGED <<storageVars, pageVars, modalVars, asyncVars, panelVars>>

\* like '%q%'
Contains(str, q) ==
    \E i \in 0..(Len(str) - Len(q)) : SubSeq(str, i + 1, i + Len(q)) = q

\* storage.searchCompanies(q), by cik
SearchCompanies(rows, q) == { row \in rows : Contains(row.cik, q) }

\* the company search keeping what SEC returned
CompaniesAfterSearch_Cached(rows, results) ==
    rows \cup { [id |-> Cardinality(rows) + 1, cik |-> c] :
                    c \in { x \in results : \A row \in rows : row.cik # x } }

\* table companies after GET /api/companies/search: the route stores nothing
CompaniesAfterSearch(rows, results) == rows

\* GET /api/companies/search?q=..., with SEC's answer to the ticker fetch
ProxyCompaniesSearch(q, outcome, results) ==
    LET route == "GET /api/companies/search"
        localCompanies == SearchCompanies(companies, q)
        askSec == q # <<>> /\ localCompanies = {}
    IN  /\ lastResponse' =
              IF q = <<>> THEN [route |-> route, status |-> 400, body |-> {}]
              ELSE IF localCompanies # {}
              THEN [route |-> route, status |-> 200,
                    body |-> { row.cik : row \in localCompanies }]
              ELSE IF outcome = "ok"
              THEN [route |-> route, status |-> 200, body |-> results]
              ELSE [route |-> route, status |-> 200, body |-> {}]
        /\ companies' = IF askSec /\ outcome = "ok"
                        THEN CompaniesAfterSearch(companies, results)
                        ELSE companies
        /\ UNCHANGED <<documents, imports>>
        /\ UNCHANGED <<storageVars, pageVars, modalVars, asyncVars, panelVars>>

\* GET /api/sec/company/:cik/filings
ProxyFilings(cik, outcome) ==
    /\ lastResponse' = [route |-> "GET /api/sec/company/:cik/filings",
                        status |-> CASE outcome = "ok" -> 200
                                     [] outcome = "notok" -> 404
                                     [] OTHER -> 500,
                        body |-> IF outcome = "ok" THEN {cik} ELSE {}]
    /\ UNCHANGED <<companies, documents, imports>>
    /\ UNCHANGED <<storageVars, pageVars, modalVars, asyncVars, panelVars>>

\* GET /api/sec/document?url=...
ProxySecDocument(hasUrl, outcome, content) ==
    /\ lastResponse' = [route |-> "GET /api/sec/document",
                        status |-> CASE ~hasUrl -> 400
                                     [] outcome = "ok" -> 200
                                     [] outcome = "notok" -> 404
                                     [] OTHER -> 500,
                        body |-> IF hasUrl /\ outcome = "ok" THEN content ELSE <<>>]
    /\ UNCHANGED <<companies, documents, imports>>
    /\ UNCHANGED <<storageVars, pageVars, modalVars, asyncVars, panelVars>>

\* POST /api/companies: the insert, rejected for a cik already stored
CreateCompany(cik) ==
    /\ IF \E row \in companies : row.cik = cik
       THEN /\ lastResponse' = [route |-> "POST /api/companies", status |-> 400,
                                body |-> {}]
            /\ UNCHANGED companies
       ELSE /\ lastResponse' = [route |-> "POST /api/companies", status |-> 201,
                                body |-> {cik}]
            /\ companies' = companies \cup
                              {[id |-> Cardinality(companies) + 1, cik |-> cik]}
    /\ UNCHANGED <<documents, imports>>
    /\ UNCHANGED <<storageVars, pageVars, modalVars, asyncVars, panelVars>>

\* the bodies SEC serves for a document url
SecBodies == { <<>>, <<" ">>, ContentOf(1, 6) }

\* what SEC's ticker list yields for a query
SecResults == { {}, { <<"c", "2">> } }

\* the second statement of storage.updateDocumentContent, run for an import
ImportInsertChunks(r) ==
    /\ imports[r].pc = "chunk"
    /\ UDC_Insert(r)

\* the third statement of storage.updateDocumentContent, run for an import
ImportUpdateDocument(r) ==
    /\ imports[r].pc = "chunk"
    /\ UDC_UpdateDocument(r)

\* an empty library: one company, no document
InitServer ==
    /\ documentChunks = <<>>
    /\ totalPages = [d \in DocIds |-> 0]
    /\ calls = [c \in Callers |-> Idle]
    /\ companies = {[id |-> 1, cik |-> <<"c", "1">>]}
    /\ documents = {}
    /\ imports = [r \in Callers |-> NoImport]
    /\ lastResponse = None
    /\ shownDoc = 0 /\ currentPage = 1 /\ currentPageContent = Null
    /\ annotations = <<>> /\ rendered = <<>> /\ reported = None
    /\ contextMenu = None /\ jump = None /\ madeAt = <<>>
    /\ ModalClosed /\ ViewerQuiet /\ PanelQuiet

NextServer ==
    \/ \E r \in Callers, a \in Accessions, valid \in BOOLEAN :
          ImportReceive(r, a, valid)
    \/ \E r \in Callers, o \in SecOutcomes, body \in SecBodies :
          ImportSecAnswers(r, o, body)
    \/ \E r \in Callers, dbOk \in BOOLEAN : ImportCreateDocument(r, dbOk)
    \/ \E r \in Callers : ImportChunks(r)
    \/ \E r \in Callers : ImportInsertChunks(r)
    \/ \E r \in Callers : ImportUpdateDocument(r)
    \/ \E r \in Callers : ImportChunkingThrows(r)
    \/ \E r \in Callers : ImportRespond(r)
    \/ \E r \in Callers : ImportClosed(r)
    \/ \E q \in Queries, o \in SecOutcomes, results \in SecResults :
          ProxyCompaniesSearch(q, o, results)
    \/ \E o \in SecOutcomes : ProxyFilings(<<"c", "1">>, o)
    \/ \E hasUrl \in BOOLEAN, o \in SecOutcomes :
          ProxySecDocument(hasUrl, o, ContentOf(1, 6))
    \/ \E c \in Ciks : CreateCompany(c)

SpecServer == InitServer /\ [][NextServer]_vars

(***************************************************************************)
(* Claims about the server routes                                          *)
(***************************************************************************)
\* the step is the handling of a request by one of the three proxy routes
ProxyStep == lastResponse' # lastResponse /\ lastResponse'.route \in ProxyRoutes

\* C13: the proxy routes GET /api/companies/search, GET
\* /api/sec/company/:cik/filings and GET /api/sec/document leave the stored
\* companies, documents, chunks and annotations unchanged, whatever SEC
\* returns.
C13_ProxyRoutesStoreNothing ==
    [][ProxyStep => UNCHANGED <<companies, documents, documentChunks, totalPages,
                                annotations>>]_vars

\* a company search found nothing locally and answered with what SEC returned,
\* while a document is stored
C13_Witness ==
    /\ lastResponse # None
    /\ lastResponse.route = "GET /api/companies/search"
    /\ lastResponse.status = 200
    /\ lastResponse.body = { <<"c", "2">> }
    /\ \A row \in companies : row.cik # <<"c", "2">>
    /\ documents # {}

\* C14: no two stored documents have the same accession number, also while
\* import requests for the same filing are handled concurrently.
C14_AccessionNumberUnique ==
    \A d1 \in documents, d2 \in documents :
        d1.accessionNumber = d2.accessionNumber => d1 = d2

\* two requests for the same filing got as far as the insert: one stored the
\* document, the other was answered 500
C14_Witness ==
    \E r1 \in Callers, r2 \in Callers :
        /\ r1 # r2
        /\ imports[r1].pc \in {"chunk", "responded"} /\ imports[r1].docId # 0
        /\ imports[r2].pc = "responded" /\ imports[r2].status = 500
        /\ imports[r2].content # <<>>
        /\ imports[r1].accessionNumber = imports[r2].accessionNumber
        /\ Cardinality(documents) = 1

\* C16: when POST /api/documents answers with an error status, no document
\* row and no chunk created by that request remains stored.
C16_FailedImportLeavesNothing ==
    \A r \in Callers :
        (imports[r].pc = "responded" /\ imports[r].status \in {400, 500, 502, 503}) =>
            /\ \A row \in documents : row.id # imports[r].docId
            /\ \A i \in 1..Len(documentChunks) :
                  documentChunks[i].documentId # imports[r].docId

(***************************************************************************)
(* Storage layer under concurrent requests: handlers of PATCH              *)
(* /api/documents/:id/content await updateDocumentContent, whose three     *)
(* statements interleave with those of other requests (no transaction).    *)
(***************************************************************************)
\* the contents the concurrent PATCH requests carry
PatchContents == { <<>>, ContentOf(1, 3), ContentOf(2, 7) }

\* PATCH /api/documents/:id/content: typeof content === 'string', then
\* storage.updateDocumentContent(id, content)
PatchContent(c, id, content) ==
    /\ content \in PatchContents
    /\ UDC_Delete(c, id, content)

NextStorageConcurrent ==
    \/ \E c \in Callers, id \in DocIds, content \in PatchContents :
          PatchContent(c, id, content)
    \/ \E c \in Callers : UDC_Insert(c)
    \/ \E c \in Callers : UDC_UpdateDocument(c)
    \/ \E c \in Callers : UDC_Return(c)

SpecStorageConcurrent == InitStorage /\ [][NextStorageConcurrent]_vars

\* C17: when two updateDocumentContent calls for the same document have both
\* finished, the stored chunks of the document are exactly the chunking of one
\* of the two contents and totalPages matches that same content.
C17_ConcurrentUpdatesLeaveOneContent ==
    \A c1 \in Callers, c2 \in Callers :
        (/\ c1 # c2
         /\ calls[c1].pc = "done" /\ calls[c2].pc = "done"
         /\ calls[c1].id = calls[c2].id) =>
            \E c \in {c1, c2} :
                /\ RowsOf(documentChunks, calls[c].id)
                      = NewChunks(calls[c].id, calls[c].content)
                /\ totalPages[calls[c].id] = TotalPagesFor(calls[c].content)

\* C18: after any completed updateDocumentContent, including one with empty
\* content, totalPages of the document is at least 1 and every page
\* 1..totalPages has a chunk (GET .../page/p finds a row, not 404).
C18_EveryPageHasAChunk ==
    \A c \in Callers :
        calls[c].pc = "done" =>
            /\ totalPages[calls[c].id] >= 1
            /\ \A p \in 1..totalPages[calls[c].id] :
                  ChunkRows(documentChunks, calls[c].id, p) # <<>>

(***************************************************************************)
(* Claims about page responses arriving in any order                       *)
(***************************************************************************)
\* C15: whenever the paginated viewer shows page content with isPageLoading
\* false, that content is the chunk of the current documentId and the current
\* currentPage, under every order of arrival of the in-flight page responses.
C15_ShownContentIsCurrentPage ==
    (/\ documentMetadata # None
     /\ ~isPageLoading
     /\ currentPageContent # Null) =>
        currentPageContent = PageContentOf(shownDoc, currentPage)

(***************************************************************************)
(* The ways home.tsx opens the modal: the viewer's Annotate button         *)
(* (handleTextSelection) and the panel's Amend Selected Annotation and Add *)
(* Annotation buttons (handleOpenAnnotationModal with and without an       *)
(* annotation).                                                            *)
(***************************************************************************)
\* annotations stored while the panel's buttons are exercised
MaxAdded == 2

\* Amend Selected Annotation: onOpenAnnotationModal(selectedAnnotationForAmend),
\* for the card clicked before
AmendSelectedAnnotation(i) ==
    /\ i \in 1..Len(annotations)
    /\ HandleOpenAnnotationModal(i)

\* Add Annotation: onOpenAnnotationModal() without an argument;
\* handleOpenAnnotationModal leaves selectedText and selectionRange as they are
AddAnnotation ==
    /\ ~annotationModalOpen
    /\ editingAnnotation' = None
    /\ annotationModalOpen' = TRUE
    /\ InitForm(None)
    /\ touched' = {} /\ onSaveCalls' = <<>>
    /\ UNCHANGED selection
    /\ UNCHANGED <<pageVars, storageVars, asyncVars, panelVars, serverVars>>

\* Save / Update in the modal opened from the panel or the viewer
SaveAnnotation ==
    /\ annotationModalOpen
    /\ Submit(MaxAdded)

NextHome ==
    \/ \E sel \in Selections : HandleTextSelection(sel[1], sel[2], sel[3])
    \/ \E i \in 1..Len(annotations) : AmendSelectedAnnotation(i)
    \/ AddAnnotation
    \/ \E t \in AnnotationTypes : SetAnnotationType(t)
    \/ SaveAnnotation
    \/ HandleClose

SpecHome == InitModal /\ [][NextHome]_vars

\* C19: every new annotation sent to POST /api/annotations is for the document
\* on screen and takes selectedText, startOffset and endOffset from one
\* selection event (never text from an annotation opened for editing or
\* offsets from an earlier selection).
C19_NewAnnotationFromOneSelection ==
    \A k \in 1..Len(onSaveCalls) :
        onSaveCalls[k].idToUpdate = 0 =>
            /\ onSaveCalls[k].data.documentId = shownDoc
            /\ \E sel \in Selections :
                  /\ onSaveCalls[k].data.selectedText = sel[1]
                  /\ onSaveCalls[k].data.startOffset = sel[2]
                  /\ onSaveCalls[k].data.endOffset = sel[3]

(***************************************************************************)
(* handleAnnotationSelect of home.tsx: an annotation of another document   *)
(* picked in the search results.  The document on screen changes at once;  *)
(* the jumpToAnnotation event is dispatched by a 100 ms timeout, whatever  *)
(* the metadata query of the new document has delivered by then.           *)
(***************************************************************************)
\* handleAnnotationSelect calls in one behaviour
MaxSelects == 2

\* handleAnnotationSelect(docId, startOffset): setCurrentDocumentId, navigate
\* and the timeout for the event
HandleAnnotationSelect(docId, startOffset) ==
    /\ Len(selects) < MaxSelects
    /\ \A k \in 1..Len(selects) : selects[k].state # "armed"
    /\ ShowDocument(docId)
    /\ selects' = Append(selects, [docId |-> docId, startOffset |-> startOffset,
                                   state |-> "armed"])

\* the 100 ms timeout of select k fires: handleJumpToAnnotationEventDispatch,
\* and the viewer's handler, which returns at once without documentMetadata
SelectTimeoutFires(k) ==
    /\ k \in 1..Len(selects)
    /\ selects[k].state = "armed"
    /\ IF documentMetadata = None
       THEN /\ selects' = [selects EXCEPT ![k].state = "dropped"]
            /\ UNCHANGED <<metadataCache, isPageLoading, pendingScrollOffset, fetches,
                           timers, scrolls, jumps>>
            /\ UNCHANGED <<pageVars, storageVars, modalVars, panelVars, serverVars>>
       ELSE /\ selects' = [selects EXCEPT ![k].state = "handled"]
            /\ HandleJump(selects[k].startOffset)

\* the page request f is answered with its chunk
PageArrives(f) ==
    /\ FetchResponds(f, TRUE)

NextSelect ==
    \/ \E d \in DocIds, g \in JumpOffsets : HandleAnnotationSelect(d, g)
    \/ \E k \in 1..MaxSelects : SelectTimeoutFires(k)
    \/ MetadataLoaded
    \/ \E f \in fetches : PageArrives(f)
    \/ \E t \in timers : TimerFires(t)

\* the metadata query and every page request are answered, every timer and
\* every timeout fires
SelectFairness ==
    /\ WF_vars(MetadataLoaded)
    /\ \A k \in 1..MaxSelects : WF_vars(SelectTimeoutFires(k))
    /\ \A f \in AllFetches : WF_vars(PageArrives(f))
    /\ \A t \in AllTimers : WF_vars(TimerFires(t))

SpecSelect == InitViewer /\ [][NextSelect]_vars /\ SelectFairness

\* the viewer shows the page of select k's document that holds its offset, and
\* the scroll to the offset was made
Arrived(k) ==
    LET d == selects[k].docId
        g == selects[k].startOffset
    IN  /\ shownDoc = d
        /\ currentPage = TargetPage(g)
        /\ currentPageContent = PageContentOf(d, TargetPage(g))
        /\ \E s \in scrolls : s.offset = g

\* C20: after handleAnnotationSelect(docId, startOffset) for a document other
\* than the one displayed (and no later selection), the viewer eventually
\* displays the page of docId that contains startOffset and performs the
\* scroll to that offset, however long the metadata takes to load.
C20_AnnotationSelectArrives ==
    \A k \in 1..MaxSelects :
        (Len(selects) = k /\ [](Len(selects) = k)) ~> Arrived(k)

(***************************************************************************)
(* Claims about the pending scroll and the page fetch effect               *)
(***************************************************************************)
\* the step is a 50 ms timer firing, and the offset of that timer is still the
\* pending one
TimerFiresWhilePending ==
    \A t \in timers :
        (t \notin timers' /\ timers' \subseteq timers) =>
            pendingScrollOffset = {t.pending}

\* C21: a pending scroll that was cleared before its 50 ms timer fires is not
\* executed: scrollToOffset is called from a timer only while the timer's
\* offset is still the pending scroll offset.
C21_ClearedScrollNotExecuted == [][TimerFiresWhilePending]_vars

\* the step sets or clears pendingScrollOffset and leaves documentId and
\* currentPage as they are: the content stays and no page fetch starts
PendingChangeKeepsPage ==
    (/\ pendingScrollOffset' # pendingScrollOffset
     /\ shownDoc' = shownDoc
     /\ currentPage' = currentPage
     /\ documentMetadata # None) =>
        /\ fetches' \subseteq fetches
        /\ currentPageContent # Null => currentPageContent' # Null

\* the step is a jump to another page: one page fetch starts, for the target
\* page
JumpFetchesOnce ==
    (Len(jumps') = Len(jumps) + 1 /\ jumps'[Len(jumps')].via = "pending") =>
        \E f \in fetches' :
            /\ fetches' \ fetches = {f}
            /\ f.doc = shownDoc
            /\ f.page = jumps'[Len(jumps')].targetPage

\* C22: setting or clearing pendingScrollOffset without a change of documentId
\* or currentPage neither clears the displayed page content nor starts a new
\* page fetch; a jump to another page causes exactly one fetch of the target
\* page.
C22_PendingOffsetStartsNoFetch ==
    [][PendingChangeKeepsPage /\ JumpFetchesOnce]_vars

(***************************************************************************)
(* Claims about the page number and the anchors of the annotations         *)
(***************************************************************************)
\* C23: with the document on screen, 1 <= currentPage <= max(1, totalPages),
\* under Previous/Next clicks and jumps to the stored annotations.
C23_CurrentPageInRange ==
    /\ 1 <= currentPage
    /\ currentPage <= Max(1, totalPages[shownDoc])

\* the range of annotation a lies on the displayed page
LiesOnPage(a) ==
    /\ a.documentId = shownDoc
    /\ PageBase <= a.startOffset
    /\ a.startOffset < a.endOffset
    /\ a.endOffset <= PageBase + Len(currentPageContent)

\* annotation a has an element with data-annotation-start = a.startOffset in
\* the rendered page, which is what scrollToOffset looks up
Anchored(a) ==
    \E i \in 1..Len(rendered) :
        \E k \in 1..Len(rendered[i].path) :
            /\ rendered[i].path[k].kind = "span"
            /\ rendered[i].path[k].id = a.id
            /\ rendered[i].path[k].start = a.startOffset

\* C24: every stored annotation of any type whose range lies on the displayed
\* page is rendered as an element carrying data-annotation-start equal to its
\* global startOffset.
C24_EveryAnnotationAnchored ==
    PageShown =>
        \A i \in 1..Len(annotations) :
            LiesOnPage(annotations[i]) => Anchored(annotations[i])


=============================================================================
